---- MODULE Spec2Model ----
(***************************************************************************)
(* Model of nemo/collections/asr/modules/audio_preprocessing.py:           *)
(*   AudioPreprocessor, AudioToMelSpectrogramPreprocessor and              *)
(*   SpectrogramAugmentation.                                              *)
(*                                                                         *)
(* Python's None is the empty sequence <<>> and a present value v is the   *)
(* one-element sequence <<v>>.  Durations (window_size, window_stride) are *)
(* counted in units of 1/DurDen second.  A module object is kept per run   *)
(* (Runs): independent runs are independent objects, each with its own     *)
(* random generators.                                                      *)
(***************************************************************************)
EXTENDS Integers, Sequences, FiniteSets, TLC

VARIABLES pre, fwd, torch_rng, aug, call, rng

vars == <<pre, fwd, torch_rng, aug, call, rng>>

Runs == {1, 2}

None == <<>>
Some(v) == <<v>>
Val(o) == o[1]
\* Python truth value of an optional number: None and 0 are false.
Truthy(o) == o # <<>> /\ o[1] # 0

Max(a, b) == IF a >= b THEN a ELSE b
Min(a, b) == IF a <= b THEN a ELSE b

RECURSIVE Pow2(_)
Pow2(n) == IF n = 0 THEN 1 ELSE 2 * Pow2(n - 1)

RECURSIVE Log2Floor(_)
Log2Floor(n) == IF n <= 1 THEN 0 ELSE 1 + Log2Floor(n \div 2)

\* ceil(a / b) on exact integers, a >= 0, b > 0.
CeilDiv(a, b) == (a + b - 1) \div b

(***************************************************************************)
(* IEEE-754 binary32, as produced by Tensor.float() and by the division of *)
(* a float32 tensor by a Python int.                                       *)
(***************************************************************************)
MantBits == 24

\* Nearest multiple of the power of two s to n + (a positive fraction iff
\* sticky), ties to the even multiple; returns the multiple's factor.
RoundHalfEven(n, s, sticky) ==
    LET q == n \div s
        r == n % s
    IN  IF 2 * r < s THEN q
        ELSE IF 2 * r > s \/ sticky THEN q + 1
        ELSE IF q % 2 = 0 THEN q ELSE q + 1

\* int64 -> float32 of a non-negative integer; the result is an integer.
ToFloat32(n) ==
    IF n < Pow2(MantBits) THEN n
    ELSE LET s == Pow2(Log2Floor(n) - (MantBits - 1))
         IN  RoundHalfEven(n, s, FALSE) * s

\* float32 quotient a / h of a float32 integer a >= 0 by h >= 1, rounded to
\* nearest even.  The quotient is [int |-> k, above |-> b]: the value k when
\* b is FALSE, a value in the interval (k, k+1] when b is TRUE.
F32Div(a, h) ==
    LET k == a \div h
        r == a % h
        p == Log2Floor(k)
    IN  IF r = 0 /\ k < Pow2(MantBits) THEN [int |-> k, above |-> FALSE]
        ELSE IF k = 0 THEN [int |-> 0, above |-> TRUE]
        ELSE IF p >= MantBits - 1
             THEN LET s == Pow2(p - (MantBits - 1))
                  IN  IF s = 1
                      THEN [int |-> IF 2 * r < h THEN k
                                    ELSE IF 2 * r > h THEN k + 1
                                    ELSE IF k % 2 = 0 THEN k ELSE k + 1,
                            above |-> FALSE]
                      ELSE [int |-> RoundHalfEven(k, s, r > 0) * s, above |-> FALSE]
             \* ulp(k) = 2^(p-23) < 1: the quotient rounds down to k exactly
             \* when r/h <= ulp(k)/2 (a tie goes to k, whose mantissa is even)
             ELSE [int |-> k, above |-> ~(Pow2(MantBits - p) <= h \div r)]

\* torch.ceil(q).to(dtype=torch.long)
CeilToLong(q) == IF q.above THEN q.int + 1 ELSE q.int


(***************************************************************************)
(* Random generators.  A generator's state is its seed (a cyclic tape of   *)
(* raw draws) and its position on the tape; equal states give equal draws. *)
(* A seed fixes as many raw draws as one cutout rectangle takes, each one   *)
(* of RawMax + 1 equally likely values; longer runs of draws repeat them.  *)
(***************************************************************************)
DrawsPerRect == 4
DrawsPerBand == 2
TapeLen == DrawsPerRect
RawMax == 2
RawValues == 0..RawMax
Tapes == [1..TapeLen -> RawValues]

Seeded(tape) == [tape |-> tape, pos |-> 0]
\* the k-th raw draw (k >= 1) from generator state g
Raw(g, k) == g.tape[((g.pos + k - 1) % Len(g.tape)) + 1]
\* the state after n draws
Advance(g, n) == [g EXCEPT !.pos = (g.pos + n) % Len(g.tape)]
\* an integer uniform in lo..hi from a raw draw
DrawInt(raw, lo, hi) == lo + (raw * (hi - lo + 1)) \div (RawMax + 1)

(***************************************************************************)
(* AudioPreprocessor and AudioToMelSpectrogramPreprocessor                 *)
(***************************************************************************)
\* window_size and window_stride count 1/DurDen second (0.02 s is 200);
\* dither counts 1e-5 (the default 1e-5 is 1)
DurDen == 10000
DefaultSampleRate == 16000
DefaultWindowSize == 200
DefaultWindowStride == 100
DefaultFeatures == 64
DefaultDither == 1
DefaultPadTo == 16
DefaultFrameSplicing == 1

\* int(x): truncation toward zero of the quotient num / den, den > 0
PyInt(num, den) == IF num >= 0 THEN num \div den ELSE -((-num) \div den)

\* AudioPreprocessor.__init__: the table of window functions
torch_windows == {Some("hann"), Some("hamming"), Some("blackman"), Some("bartlett"),
                  Some("ones"), None}

\* AudioPreprocessor.__init__(win_length, hop_length)
AudioPreprocessor_init(win_length, hop_length) ==
    [win_length |-> win_length, hop_length |-> hop_length]

\* the defaults of AudioToMelSpectrogramPreprocessor.__init__
PreDefaults ==
    [sample_rate |-> DefaultSampleRate,
     window_size |-> Some(DefaultWindowSize),
     window_stride |-> Some(DefaultWindowStride),
     n_window_size |-> None,
     n_window_stride |-> None,
     window |-> Some("hann"),
     features |-> DefaultFeatures,
     dither |-> DefaultDither,
     pad_to |-> DefaultPadTo,
     frame_splicing |-> DefaultFrameSplicing]

\* FilterbankFeatures.__init__: the Window Table rejects an unknown name at
\* construction; the other options are stored.
FilterbankFeatures(kw) ==
    IF kw.window \notin torch_windows
    THEN [ok |-> FALSE, error |-> "ConfigError", obj |-> None]
    ELSE [ok |-> TRUE, error |-> "",
          obj |-> Some([win_length |-> kw.n_window_size,
                        hop_length |-> kw.n_window_stride,
                        window |-> kw.window,
                        nfilt |-> kw.nfilt,
                        dither |-> kw.dither,
                        pad_to |-> kw.pad_to,
                        frame_splicing |-> kw.frame_splicing])]

\* "if window_size and n_window_size: raise ValueError"
ReceivedBothSize(a) == Truthy(a.window_size) /\ Truthy(a.n_window_size)
\* the stride check with the size pair's duration in it
ReceivedBothStride_SizeDuration(a) == Truthy(a.window_size) /\ Truthy(a.n_window_stride)

\* "if window_stride and n_window_stride: raise ValueError"
ReceivedBothStride(a) == Truthy(a.window_stride) /\ Truthy(a.n_window_stride)

\* the conversion guarded by "is not None" instead of the truth value
NWindowSize_NotNone(a) ==
    IF a.window_size # None
    THEN Some(PyInt(Val(a.window_size) * a.sample_rate, DurDen))
    ELSE a.n_window_size

\* "if window_size: n_window_size = int(window_size * self._sample_rate)"
NWindowSize(a) ==
    IF Truthy(a.window_size)
    THEN Some(PyInt(Val(a.window_size) * a.sample_rate, DurDen))
    ELSE a.n_window_size

\* "if window_stride: n_window_stride = int(window_stride * self._sample_rate)"
NWindowStride(a) ==
    IF Truthy(a.window_stride)
    THEN Some(PyInt(Val(a.window_stride) * a.sample_rate, DurDen))
    ELSE a.n_window_stride

\* the call with the window argument left out (the featurizer's default)
FeaturizerKwargs_NoWindow(a) ==
    [sample_rate |-> a.sample_rate,
     n_window_size |-> NWindowSize(a),
     n_window_stride |-> NWindowStride(a),
     window |-> Some("hann"),
     nfilt |-> a.features,
     dither |-> a.dither,
     pad_to |-> a.pad_to,
     frame_splicing |-> a.frame_splicing]

\* the keyword arguments of the FilterbankFeatures(...) call
FeaturizerKwargs(a) ==
    [sample_rate |-> a.sample_rate,
     n_window_size |-> NWindowSize(a),
     n_window_stride |-> NWindowStride(a),
     window |-> a.window,
     nfilt |-> a.features,
     dither |-> a.dither,
     pad_to |-> a.pad_to,
     frame_splicing |-> a.frame_splicing]

\* AudioToMelSpectrogramPreprocessor.__init__(**a): the object it leaves, or
\* the exception it raises (status), with no featurizer when it raises.
AudioToMelSpectrogramPreprocessor_init(a) ==
    LET base == AudioPreprocessor_init(a.n_window_size, a.n_window_stride)
        failed(e) == [status |-> e, args |-> a, win_length |-> base.win_length,
                      hop_length |-> base.hop_length, sample_rate |-> a.sample_rate,
                      featurizer |-> None, featurizer_kwargs |-> None]
    IN  IF ReceivedBothSize(a) THEN failed("ValueError")
        ELSE IF ReceivedBothStride(a) THEN failed("ValueError")
        ELSE LET kw == FeaturizerKwargs(a)
                 f == FilterbankFeatures(kw)
             IN  IF ~f.ok THEN [failed(f.error) EXCEPT !.featurizer_kwargs = Some(kw)]
                 ELSE [status |-> "ok", args |-> a, win_length |-> base.win_length,
                       hop_length |-> base.hop_length, sample_rate |-> a.sample_rate,
                       featurizer |-> f.obj, featurizer_kwargs |-> Some(kw)]

\* AudioPreprocessor.get_seq_len(length), length a float32 tensor element
AudioPreprocessor_get_seq_len(hop_length, length) ==
    CeilToLong(F32Div(length, hop_length))

\* FilterbankFeatures.get_seq_len(seq_len): ceil(seq_len / hop_length)
FilterbankFeatures_get_seq_len(f, seq_len) ==
    AudioPreprocessor_get_seq_len(Val(f.hop_length), seq_len)

\* AudioToMelSpectrogramPreprocessor.get_seq_len(seq_len)
get_seq_len(obj, seq_len) == FilterbankFeatures_get_seq_len(Val(obj.featurizer), seq_len)

\* Framed STFT Engine: the number of frames of a buffer of T samples
NumFrames(f, T) == CeilDiv(T, Val(f.hop_length))

\* Length-Aware Padder: the frame-axis length of the feature tensor
PaddedLen(max_frames, pad_to) ==
    IF pad_to > 0 THEN CeilDiv(max_frames, pad_to) * pad_to ELSE max_frames

\* FilterbankFeatures.forward(input_signal, length) with torch's generator in
\* state g: the feature tensor (its shape, and its content as a function of
\* the waveform, the lengths and the dither noise) and the generator after.
FilterbankFeatures_forward(f, sig, length, g) ==
    LET dithered == f.dither > 0
        noise == IF dithered THEN Some(Raw(g, 1)) ELSE None
    IN  [features |-> [shape |-> <<sig.B, f.nfilt * Max(1, f.frame_splicing),
                                   PaddedLen(NumFrames(f, sig.T), f.pad_to)>>,
                       content |-> <<sig.wave, length, noise>>],
         g |-> IF dithered THEN Advance(g, 1) ELSE g]

\* AudioToMelSpectrogramPreprocessor.get_features(input_signal, length)
get_features(obj, sig, length, g) ==
    FilterbankFeatures_forward(Val(obj.featurizer), sig, length, g)

\* AudioPreprocessor.forward(input_signal, length)
forward(obj, sig, length, g) ==
    LET feats == get_features(obj, sig, length, g)
    IN  [processed_signal |-> feats.features,
         processed_length |-> [b \in 1..sig.B |-> get_seq_len(obj, ToFloat32(length[b]))],
         g |-> feats.g]

\* forward() can run: the object was constructed and its stride is a
\* positive sample count (otherwise the division raises).
CanForward(obj) ==
    /\ obj # None
    /\ Val(obj).status = "ok"
    /\ Val(Val(obj).featurizer).hop_length # None
    /\ Val(Val(Val(obj).featurizer).hop_length) > 0
    /\ Val(Val(obj).featurizer).pad_to >= 0

\* p = AudioToMelSpectrogramPreprocessor(**a), in a process whose torch
\* generator was seeded with tape
PreInit(i, a, tape) ==
    /\ pre[i] = None
    /\ pre' = [pre EXCEPT ![i] = Some(AudioToMelSpectrogramPreprocessor_init(a))]
    /\ torch_rng' = [torch_rng EXCEPT ![i] = Seeded(tape)]
    /\ UNCHANGED <<fwd, aug, call, rng>>

\* p(input_signal=sig, length=length)
PreForward(i, sig, length) ==
    /\ CanForward(pre[i])
    /\ fwd[i] = None
    /\ LET out == forward(Val(pre[i]), sig, length, torch_rng[i])
       IN  /\ fwd' = [fwd EXCEPT ![i] =
                        Some([input_signal |-> sig, length |-> length,
                              torch_rng_before |-> torch_rng[i],
                              processed_signal |-> out.processed_signal,
                              processed_length |-> out.processed_length])]
           /\ torch_rng' = [torch_rng EXCEPT ![i] = out.g]
    /\ UNCHANGED <<pre, aug, call, rng>>

Init ==
    /\ pre = [i \in Runs |-> None]
    /\ fwd = [i \in Runs |-> None]
    /\ torch_rng = [i \in Runs |-> Seeded([k \in 1..TapeLen |-> 0])]
    /\ aug = [i \in Runs |-> None]
    /\ call = [i \in Runs |-> None]
    /\ rng = [i \in Runs |-> [shared |-> None, cutout |-> None, augment |-> None]]

(***************************************************************************)
(* SpectrogramAugmentation.  A feature tensor x is x[b][c][f]: batch item, *)
(* channel, frame.                                                         *)
(***************************************************************************)
DefaultFreqMasks == 0
DefaultTimeMasks == 0
DefaultFreqWidth == 10
DefaultTimeWidth == 10
DefaultRectMasks == 0
DefaultRectTime == 5
DefaultRectFreq == 20

\* the signature with rect_masks defaulting to 1
BindAugArgs_RectMasksOne(given) ==
    LET d(o, v) == IF o = None THEN v ELSE Val(o)
    IN  [freq_masks |-> d(given.freq_masks, DefaultFreqMasks),
         time_masks |-> d(given.time_masks, DefaultTimeMasks),
         freq_width |-> d(given.freq_width, DefaultFreqWidth),
         time_width |-> d(given.time_width, DefaultTimeWidth),
         rect_masks |-> d(given.rect_masks, 1),
         rect_time |-> d(given.rect_time, DefaultRectTime),
         rect_freq |-> d(given.rect_freq, DefaultRectFreq),
         rng |-> given.rng]

\* the signature of SpectrogramAugmentation.__init__: an argument the caller
\* leaves out (None in given) takes its default; rng defaults to None.
BindAugArgs(given) ==
    LET d(o, v) == IF o = None THEN v ELSE Val(o)
    IN  [freq_masks |-> d(given.freq_masks, DefaultFreqMasks),
         time_masks |-> d(given.time_masks, DefaultTimeMasks),
         freq_width |-> d(given.freq_width, DefaultFreqWidth),
         time_width |-> d(given.time_width, DefaultTimeWidth),
         rect_masks |-> d(given.rect_masks, DefaultRectMasks),
         rect_time |-> d(given.rect_time, DefaultRectTime),
         rect_freq |-> d(given.rect_freq, DefaultRectFreq),
         rng |-> given.rng]

\* SpecCutout.__init__ / SpecAugment.__init__: the generator handed in, or
\* one of the stage's own when rng is None
StageRng(r) == IF r = None THEN "own" ELSE "shared"

SpecCutout(rect_masks, rect_time, rect_freq, r) ==
    [rect_masks |-> rect_masks, rect_time |-> rect_time, rect_freq |-> rect_freq,
     rng |-> StageRng(r)]

SpecAugment(freq_masks, time_masks, freq_width, time_width, r) ==
    [freq_masks |-> freq_masks, time_masks |-> time_masks,
     freq_width |-> freq_width, time_width |-> time_width, rng |-> StageRng(r)]

\* the SpecCutout call with rect_time and rect_freq exchanged
MakeCutout_Exchanged(kw) ==
    IF kw.rect_masks > 0
    THEN Some(SpecCutout(kw.rect_masks, kw.rect_freq, kw.rect_time, kw.rng))
    ELSE None

\* the SpecCutout call without the rng argument
MakeCutout_NoRng(kw) ==
    IF kw.rect_masks > 0
    THEN Some(SpecCutout(kw.rect_masks, kw.rect_time, kw.rect_freq, None))
    ELSE None

\* "if rect_masks > 0: self.spec_cutout = SpecCutout(...) else: lambda x: x"
\* (None is the identity lambda)
MakeCutout(kw) ==
    IF kw.rect_masks > 0
    THEN Some(SpecCutout(kw.rect_masks, kw.rect_time, kw.rect_freq, kw.rng))
    ELSE None

\* the SpecAugment call with freq_width and time_width exchanged
MakeAugment_Exchanged(kw) ==
    IF kw.freq_masks + kw.time_masks > 0
    THEN Some(SpecAugment(kw.freq_masks, kw.time_masks, kw.time_width, kw.freq_width, kw.rng))
    ELSE None

\* "if freq_masks + time_masks > 0: self.spec_augment = SpecAugment(...)
\*  else: lambda x: x"
MakeAugment(kw) ==
    IF kw.freq_masks + kw.time_masks > 0
    THEN Some(SpecAugment(kw.freq_masks, kw.time_masks, kw.freq_width, kw.time_width, kw.rng))
    ELSE None

\* SpectrogramAugmentation.__init__(**given)
SpectrogramAugmentation_init(given) ==
    LET kw == BindAugArgs(given)
    IN  [given |-> given, kwargs |-> kw,
         spec_cutout |-> MakeCutout(kw), spec_augment |-> MakeAugment(kw)]

Channels(x) == Len(x[1])
Frames(x) == Len(x[1][1])

\* item with channels r0+1..r0+h of frames c0+1..c0+w set to zero
ZeroRect(item, r0, h, c0, w) ==
    [c \in 1..Len(item) |->
        [f \in 1..Len(item[1]) |->
            IF c > r0 /\ c <= r0 + h /\ f > c0 /\ f <= c0 + w THEN 0 ELSE item[c][f]]]

RECURSIVE ZeroRects(_, _)
ZeroRects(item, rects) ==
    IF rects = <<>> THEN item
    ELSE ZeroRects(ZeroRect(item, rects[1].r0, rects[1].h, rects[1].c0, rects[1].w),
                   Tail(rects))

\* Rectangular Cutout: the k-th rectangle of item idx.  Height uniform in
\* 0..rect_freq and width uniform in 0..rect_time, clamped to the tensor;
\* the corner uniform among those that keep the rectangle inside.
CutoutRect(st, x, g, idx, k) ==
    LET base == ((idx - 1) * st.rect_masks + (k - 1)) * DrawsPerRect
        h == Min(DrawInt(Raw(g, base + 1), 0, st.rect_freq), Channels(x))
        w == Min(DrawInt(Raw(g, base + 2), 0, st.rect_time), Frames(x))
    IN  [h |-> h, w |-> w,
         r0 |-> DrawInt(Raw(g, base + 3), 0, Channels(x) - h),
         c0 |-> DrawInt(Raw(g, base + 4), 0, Frames(x) - w)]

\* SpecCutout.forward(x) drawing from generator state g
SpecCutout_forward(st, x, g) ==
    [x |-> [idx \in 1..Len(x) |->
              ZeroRects(x[idx], [k \in 1..st.rect_masks |-> CutoutRect(st, x, g, idx, k)])],
     g |-> Advance(g, Len(x) * st.rect_masks * DrawsPerRect)]

\* Band Masking: the k-th band of item idx, k <= freq_masks a frequency
\* band, the others time bands.  Width uniform in 0..max width, clamped to
\* the axis; start uniform among those that keep the band inside.
BandRect(st, x, g, idx, k) ==
    LET base == ((idx - 1) * (st.freq_masks + st.time_masks) + (k - 1)) * DrawsPerBand
    IN  IF k <= st.freq_masks
        THEN LET w == Min(DrawInt(Raw(g, base + 1), 0, st.freq_width), Channels(x))
             IN  [h |-> w, w |-> Frames(x),
                  r0 |-> DrawInt(Raw(g, base + 2), 0, Channels(x) - w), c0 |-> 0]
        ELSE LET w == Min(DrawInt(Raw(g, base + 1), 0, st.time_width), Frames(x))
             IN  [h |-> Channels(x), w |-> w,
                  r0 |-> 0, c0 |-> DrawInt(Raw(g, base + 2), 0, Frames(x) - w)]

\* SpecAugment.forward(x) drawing from generator state g
SpecAugment_forward(st, x, g) ==
    [x |-> [idx \in 1..Len(x) |->
              ZeroRects(x[idx], [k \in 1..(st.freq_masks + st.time_masks) |->
                                    BandRect(st, x, g, idx, k)])],
     g |-> Advance(g, Len(x) * (st.freq_masks + st.time_masks) * DrawsPerBand)]

\* the generator a stage draws from, among the module's generators gs
StageGen(gs, st, own) == IF st.rng = "shared" THEN Val(gs.shared) ELSE Val(gs[own])
PutGen(gs, st, own, g) ==
    IF st.rng = "shared" THEN [gs EXCEPT !.shared = Some(g)] ELSE [gs EXCEPT ![own] = Some(g)]

\* "augmented_spec = self.spec_cutout(input_spec)"
ApplyCutout(obj, x, gs) ==
    IF obj.spec_cutout = None THEN [x |-> x, gs |-> gs]
    ELSE LET st == Val(obj.spec_cutout)
             out == SpecCutout_forward(st, x, StageGen(gs, st, "cutout"))
         IN  [x |-> out.x, gs |-> PutGen(gs, st, "cutout", out.g)]

\* "augmented_spec = self.spec_augment(augmented_spec)"
ApplyAugment(obj, x, gs) ==
    IF obj.spec_augment = None THEN [x |-> x, gs |-> gs]
    ELSE LET st == Val(obj.spec_augment)
             out == SpecAugment_forward(st, x, StageGen(gs, st, "augment"))
         IN  [x |-> out.x, gs |-> PutGen(gs, st, "augment", out.g)]

\* SpectrogramAugmentation.forward(input_spec)
SpectrogramAugmentation_forward(obj, input_spec, gs) ==
    LET cut == ApplyCutout(obj, input_spec, gs)
        masked == ApplyAugment(obj, cut.x, cut.gs)
    IN  [after_cutout |-> cut.x, augmented_spec |-> masked.x, gs |-> masked.gs]

\* a = SpectrogramAugmentation(**given); a stage given no generator seeds
\* its own from the system's entropy (seedC, seedA)
AugInit(i, given, seedC, seedA) ==
    /\ aug[i] = None
    /\ LET obj == SpectrogramAugmentation_init(given)
       IN  /\ aug' = [aug EXCEPT ![i] = Some(obj)]
           /\ rng' = [rng EXCEPT ![i] =
                 [shared |-> given.rng,
                  cutout |-> IF obj.spec_cutout # None /\ Val(obj.spec_cutout).rng = "own"
                             THEN Some(Seeded(seedC)) ELSE None,
                  augment |-> IF obj.spec_augment # None /\ Val(obj.spec_augment).rng = "own"
                              THEN Some(Seeded(seedA)) ELSE None]]
    /\ UNCHANGED <<pre, fwd, torch_rng, call>>

\* a(input_spec=x)
AugForward(i, x) ==
    /\ aug[i] # None
    /\ call[i] = None
    /\ LET out == SpectrogramAugmentation_forward(Val(aug[i]), x, rng[i])
       IN  /\ call' = [call EXCEPT ![i] =
                         Some([input_spec |-> x, rng_before |-> rng[i],
                               after_cutout |-> out.after_cutout,
                               augmented_spec |-> out.augmented_spec])]
           /\ rng' = [rng EXCEPT ![i] = out.gs]
    /\ UNCHANGED <<pre, fwd, torch_rng, aug>>

(***************************************************************************)
(* Construction of the preprocessor over its size/stride/window options.   *)
(***************************************************************************)
SampleRates == {8000, 16000, 22050}
Durations == {None, Some(0), Some(100), Some(125), Some(200), Some(-125)}
SampleCounts == {None, Some(0), Some(1), Some(160), Some(320), Some(-1)}
WindowNames == torch_windows \cup {Some("kaiser"), Some("hanning")}
ZeroTape == [k \in 1..TapeLen |-> 0]

CtorArgs ==
    {[PreDefaults EXCEPT !.sample_rate = sr, !.window_size = ws, !.window_stride = wst,
                         !.n_window_size = nws, !.n_window_stride = nwst, !.window = w] :
        sr \in SampleRates, ws \in Durations, wst \in Durations,
        nws \in SampleCounts, nwst \in SampleCounts, w \in WindowNames}

\* one second of audio at 16 kHz, fully valid
OneSecond == [B |-> 1, T |-> 16000, wave |-> 0]

NextCtor ==
    \/ pre[1] = None /\ \E a \in CtorArgs : PreInit(1, a, ZeroTape)
    \/ PreForward(1, OneSecond, <<16000>>)

SpecCtor == Init /\ [][NextCtor]_vars

Built(i) == pre[i] # None
Obj(i) == Val(pre[i])

\* C2: when both parameters of the window-size pair, or both of the
\* window-stride pair, are set, construction raises ValueError and builds no
\* featurizer; with exactly one of each pair set it raises no ValueError.
C2_BothSetRaises ==
    \A i \in Runs :
        Built(i) =>
            LET a == Obj(i).args
                bothSize == Truthy(a.window_size) /\ Truthy(a.n_window_size)
                bothStride == Truthy(a.window_stride) /\ Truthy(a.n_window_stride)
                oneSize == Truthy(a.window_size) # Truthy(a.n_window_size)
                oneStride == Truthy(a.window_stride) # Truthy(a.n_window_stride)
            IN  /\ (bothSize \/ bothStride) =>
                      /\ Obj(i).status = "ValueError"
                      /\ Obj(i).featurizer = None
                      /\ fwd[i] = None
                /\ (oneSize /\ oneStride) => Obj(i).status # "ValueError"

C2_Witness ==
    /\ Built(1)
    /\ Obj(1).args.window_stride = None
    /\ Obj(1).args.n_window_stride = Some(160)
    /\ Obj(1).args.window_size = Some(200)
    /\ Obj(1).args.n_window_size = Some(320)
    /\ Obj(1).status = "ValueError"

RecognizedWindows ==
    {Some("hann"), Some("hamming"), Some("blackman"), Some("bartlett"), Some("ones"), None}

PairConflict(a) ==
    \/ Truthy(a.window_size) /\ Truthy(a.n_window_size)
    \/ Truthy(a.window_stride) /\ Truthy(a.n_window_stride)

\* C9: a window name outside the recognized set is rejected with a
\* configuration error by the constructor, so forward never runs with one;
\* every recognized name (None, the all-ones window, included) is accepted
\* by the constructor.
C9_WindowCheckedAtConstruction ==
    \A i \in Runs :
        Built(i) =>
            LET a == Obj(i).args
            IN  /\ (~PairConflict(a) /\ a.window \notin RecognizedWindows) =>
                        /\ Obj(i).status = "ConfigError"
                        /\ Obj(i).featurizer = None
                /\ (~PairConflict(a) /\ a.window \in RecognizedWindows) =>
                        /\ Obj(i).status = "ok"
                        /\ Obj(i).featurizer # None
                        /\ Val(Obj(i).featurizer).window = a.window
                /\ fwd[i] # None => a.window \in RecognizedWindows

C9_Witness ==
    /\ Built(1)
    /\ Obj(1).args.window = Some("kaiser")
    /\ ~PairConflict(Obj(1).args)
    /\ Obj(1).status = "ConfigError"

\* v is x / DurDen truncated toward zero
IsTruncation(v, x) ==
    IF x >= 0 THEN v * DurDen <= x /\ x < (v + 1) * DurDen
    ELSE v * DurDen >= x /\ x > (v - 1) * DurDen

\* C10: a parameter of a size/stride pair counts as set exactly when it is
\* truthy: construction raises ValueError exactly when both parameters of a
\* pair are truthy (so with the default window_size every non-zero
\* n_window_size raises); otherwise the featurizer receives the sample count
\* unchanged when the duration of the pair is None or 0, and
\* int(duration * sample_rate), truncated toward zero, when it is not.
C10_TruthyPairs ==
    \A i \in Runs :
        Built(i) =>
            LET a == Obj(i).args
                kw == Val(Obj(i).featurizer_kwargs)
            IN  /\ (Obj(i).status = "ValueError") <=> PairConflict(a)
                /\ (a.window_size = Some(DefaultWindowSize) /\ Truthy(a.n_window_size))
                        => Obj(i).status = "ValueError"
                /\ (a.window_stride = Some(DefaultWindowStride) /\ Truthy(a.n_window_stride))
                        => Obj(i).status = "ValueError"
                /\ Obj(i).status # "ValueError" =>
                    /\ ~Truthy(a.window_size) => kw.n_window_size = a.n_window_size
                    /\ Truthy(a.window_size) =>
                          /\ kw.n_window_size # None
                          /\ IsTruncation(Val(kw.n_window_size),
                                          Val(a.window_size) * a.sample_rate)
                    /\ ~Truthy(a.window_stride) => kw.n_window_stride = a.n_window_stride
                    /\ Truthy(a.window_stride) =>
                          /\ kw.n_window_stride # None
                          /\ IsTruncation(Val(kw.n_window_stride),
                                          Val(a.window_stride) * a.sample_rate)

C10_Witness ==
    /\ Built(1)
    /\ Obj(1).status = "ok"
    /\ Obj(1).args.window_size = Some(0)
    /\ Obj(1).args.n_window_size = Some(320)
    /\ Val(Obj(1).featurizer).win_length = Some(320)
    /\ Obj(1).args.window_stride = Some(-125)
    /\ Obj(1).args.sample_rate = 22050
    /\ Val(Obj(1).featurizer).hop_length = Some(-275)

(***************************************************************************)
(* Extraction: construction with a few strides and paddings, then one      *)
(* forward over a batch.  The lengths lie around the stride and around     *)
(* 2^24, where float32 stops holding every integer.                        *)
(***************************************************************************)
MaxBatch == 2
Lengths == {0, 1, 160, 161, 16000, 16777216, 16777217, 16777281, 33554438}
PadTos == {0, 1, DefaultPadTo}
Strides == {<<Some(DefaultWindowStride), None>>, <<None, Some(1)>>, <<None, Some(256)>>}

ExtractArgs ==
    {[PreDefaults EXCEPT !.window_stride = st[1], !.n_window_stride = st[2], !.pad_to = p] :
        st \in Strides, p \in PadTos}

Signals(B) == {[B |-> B, T |-> T, wave |-> 0] : T \in Lengths}
LengthVectors(B, T) == [1..B -> {L \in Lengths : L <= T}]

NextExtract ==
    \/ pre[1] = None /\ \E a \in ExtractArgs : PreInit(1, a, ZeroTape)
    \/ /\ fwd[1] = None
       /\ \E B \in 1..MaxBatch : \E sig \in Signals(B) : \E length \in LengthVectors(B, sig.T) :
             PreForward(1, sig, length)

SpecExtract == Init /\ [][NextExtract]_vars

Called(i) == fwd[i] # None
Fwd(i) == Val(fwd[i])
\* the configured stride in samples
HopLength(i) == Val(Val(Obj(i).featurizer).hop_length)

\* C1: every item's processed length is ceil(length / hop_length) of the
\* real length, it is monotone non-decreasing in the length, and it is the
\* same whatever the buffer length T >= length.
C1_SeqLenIsCeil ==
    \A i \in Runs :
        Called(i) =>
            /\ \A b \in 1..Fwd(i).input_signal.B :
                  Fwd(i).processed_length[b] = CeilDiv(Fwd(i).length[b], HopLength(i))
            /\ \A b, c \in 1..Fwd(i).input_signal.B :
                  Fwd(i).length[b] <= Fwd(i).length[c] =>
                      Fwd(i).processed_length[b] <= Fwd(i).processed_length[c]

\* the part of C1 the code keeps: exact up to 2^24 samples, monotone always
C1_SeqLenIsCeilUpTo2Pow24 ==
    \A i \in Runs :
        Called(i) =>
            /\ \A b \in 1..Fwd(i).input_signal.B :
                  Fwd(i).length[b] <= Pow2(MantBits) =>
                      Fwd(i).processed_length[b] = CeilDiv(Fwd(i).length[b], HopLength(i))
            /\ \A b, c \in 1..Fwd(i).input_signal.B :
                  Fwd(i).length[b] <= Fwd(i).length[c] =>
                      Fwd(i).processed_length[b] <= Fwd(i).processed_length[c]

\* C4: the frame axis of the feature tensor is ceil(max_frames / pad_to) *
\* pad_to when pad_to > 0 and max_frames when pad_to = 0, it is at least
\* every item's output length, and one second at 16 kHz under the defaults
\* gives output length 100 and shape (1, 64, 112).
C4_PaddedFrames ==
    \A i \in Runs :
        Called(i) =>
            LET frames == Fwd(i).processed_signal.shape[3]
                pad_to == Obj(i).args.pad_to
                max_frames == CeilDiv(Fwd(i).input_signal.T, HopLength(i))
            IN  /\ pad_to > 0 =>
                      /\ frames % pad_to = 0
                      /\ frames >= max_frames
                      /\ frames < max_frames + pad_to
                /\ pad_to = 0 => frames = max_frames
                /\ \A b \in 1..Fwd(i).input_signal.B : frames >= Fwd(i).processed_length[b]
                /\ (Obj(i).args = PreDefaults /\ Fwd(i).input_signal.B = 1
                      /\ Fwd(i).input_signal.T = 16000 /\ Fwd(i).length = <<16000>>) =>
                      /\ Fwd(i).processed_length = <<100>>
                      /\ Fwd(i).processed_signal.shape = <<1, 64, 112>>

(***************************************************************************)
(* Augmentation: construction, then one forward over a small tensor.       *)
(***************************************************************************)
MaxChannels == 2
MaxFrames == 2

\* a tensor of distinct non-zero elements, or one that holds zeros already
Tensor(B, C, F, fill) ==
    [b \in 1..B |-> [c \in 1..C |-> [f \in 1..F |->
        IF fill = "index" THEN ((b - 1) * C + (c - 1)) * F + f ELSE (c + f) % 2]]]

Tensors ==
    {Tensor(B, C, F, fill) :
        B \in 1..MaxBatch, C \in 1..MaxChannels, F \in 1..MaxFrames,
        fill \in {"index", "parity"}}

NoArgs ==
    [freq_masks |-> None, time_masks |-> None, freq_width |-> None, time_width |-> None,
     rect_masks |-> None, rect_time |-> None, rect_freq |-> None, rng |-> None]

EntropySeeds == {[k \in 1..TapeLen |-> v] : v \in RawValues}
AllSeeds == {Some(Seeded(t)) : t \in Tapes}

Construct(i, givens) ==
    /\ aug[i] = None
    /\ \E given \in givens : \E sc \in EntropySeeds, sa \in EntropySeeds :
          AugInit(i, given, sc, sa)

Apply(i, xs) ==
    /\ call[i] = None
    /\ \E x \in xs : AugForward(i, x)

Made(i) == aug[i] # None
Aug(i) == Val(aug[i])
Applied(i) == call[i] # None
Call(i) == Val(call[i])

(***************************************************************************)
(* The cutout stage: one rectangle, with and without explicit extents.     *)
(***************************************************************************)
Extents == {None, Some(1), Some(3)}

CutoutGivens ==
    {[NoArgs EXCEPT !.rect_masks = Some(1), !.rect_freq = rf, !.rect_time = rt, !.rng = r] :
        rf \in Extents, rt \in Extents, r \in AllSeeds}

NextCutout == Construct(1, CutoutGivens) \/ Apply(1, Tensors)

SpecCutoutStage == Init /\ [][NextCutout]_vars

\* item out is item in with the rectangle at (r0, c0) of height h and width
\* w zeroed, and nothing else changed
OnlyRectZeroed(in, out, r0, h, c0, w) ==
    /\ Len(out) = Len(in)
    /\ \A c \in 1..Len(in) :
          /\ Len(out[c]) = Len(in[c])
          /\ \A f \in 1..Len(in[c]) :
                out[c][f] = IF c > r0 /\ c <= r0 + h /\ f > c0 /\ f <= c0 + w
                            THEN 0 ELSE in[c][f]

\* C5: with rect_masks = 1, rect_freq = F and rect_time = Tm the cutout
\* stage zeroes, per item, one rectangle of height <= F and width <= Tm that
\* lies inside the tensor, keeps every other element, and keeps the shape,
\* also when the tensor has fewer than F channels or Tm frames.
C5_CutoutOneRectInside ==
    \A i \in Runs :
        (/\ Applied(i)
         /\ Aug(i).given.rect_masks = Some(1)
         /\ Aug(i).given.rect_freq # None
         /\ Aug(i).given.rect_time # None) =>
            LET x == Call(i).input_spec
                y == Call(i).after_cutout
                F == Val(Aug(i).given.rect_freq)
                Tm == Val(Aug(i).given.rect_time)
            IN  /\ Len(y) = Len(x)
                /\ \A idx \in 1..Len(x) :
                      \E h \in 0..F, w \in 0..Tm :
                          \E r0 \in 0..(Channels(x) - h), c0 \in 0..(Frames(x) - w) :
                              OnlyRectZeroed(x[idx], y[idx], r0, h, c0, w)

\* a tensor with fewer channels than rect_freq loses a whole column of
\* channels to a clamped rectangle
C5_Witness ==
    /\ Applied(1)
    /\ Aug(1).given.rect_masks = Some(1)
    /\ Aug(1).given.rect_freq = Some(3)
    /\ Aug(1).given.rect_time = Some(1)
    /\ Call(1).input_spec = Tensor(1, 2, 2, "index")
    /\ Call(1).after_cutout = <<<< <<1, 0>>, <<3, 0>> >>>>

\* C8: with rect_masks > 0 and neither rect_freq nor rect_time given, the
\* cutout stage is built with rect_freq = 5 and rect_time = 25, the defaults
\* of the class docstring.
C8_DocumentedRectDefaults ==
    \A i \in Runs :
        (/\ Made(i)
         /\ Aug(i).kwargs.rect_masks > 0
         /\ Aug(i).given.rect_freq = None
         /\ Aug(i).given.rect_time = None) =>
            /\ Aug(i).spec_cutout # None
            /\ Val(Aug(i).spec_cutout).rect_freq = 5
            /\ Val(Aug(i).spec_cutout).rect_time = 25

(***************************************************************************)
(* The band-masking stage: one frequency band.                             *)
(***************************************************************************)
BandGivens ==
    {[NoArgs EXCEPT !.freq_masks = Some(1), !.time_masks = tm, !.freq_width = fw,
                    !.rect_masks = rm, !.rng = r] :
        tm \in {None, Some(0)}, fw \in Extents, rm \in {None, Some(1)}, r \in AllSeeds}

NextBand == Construct(1, BandGivens) \/ Apply(1, Tensors)

SpecBandStage == Init /\ [][NextBand]_vars

\* C6: with freq_masks = 1, time_masks = 0 and freq_width = W, for every
\* seed and every item, what the band-masking stage changes is one
\* contiguous band of at most W channels, zero across all frames and inside
\* the channel extent; every element outside the band keeps its value.
C6_OneFrequencyBand ==
    \A i \in Runs :
        (/\ Applied(i)
         /\ Aug(i).kwargs.freq_masks = 1
         /\ Aug(i).kwargs.time_masks = 0) =>
            LET x == Call(i).after_cutout
                y == Call(i).augmented_spec
                W == Aug(i).kwargs.freq_width
            IN  /\ Len(y) = Len(x)
                /\ \A idx \in 1..Len(x) :
                      \E w \in 0..Min(W, Channels(x)) : \E s \in 0..(Channels(x) - w) :
                          OnlyRectZeroed(x[idx], y[idx], s, w, 0, Frames(x))

C6_Witness ==
    /\ Applied(1)
    /\ Aug(1).given.freq_masks = Some(1)
    /\ Aug(1).given.freq_width = Some(1)
    /\ Aug(1).given.rect_masks = None
    /\ Call(1).input_spec = Tensor(1, 2, 2, "index")
    /\ Call(1).augmented_spec = <<<< <<1, 2>>, <<0, 0>> >>>>

(***************************************************************************)
(* Disabled stages.                                                        *)
(***************************************************************************)
Counts == {None, Some(0), Some(1)}

IdentityGivens ==
    {[NoArgs EXCEPT !.rect_masks = rm, !.freq_masks = fm, !.time_masks = tm, !.rng = r] :
        rm \in Counts, fm \in Counts, tm \in Counts, r \in AllSeeds \cup {None}}

NextIdentity == Construct(1, IdentityGivens) \/ Apply(1, Tensors)

SpecIdentity == Init /\ [][NextIdentity]_vars

\* a count as configured: the documented default of every count is 0
Count(o) == IF o = None THEN 0 ELSE Val(o)

\* C3: with zero mask and cutout counts forward returns its input element
\* for element and leaves every generator where it was; a stage with a zero
\* count is the identity on its input.
C3_ZeroCountsIdentity ==
    \A i \in Runs :
        Applied(i) =>
            LET g == Aug(i).given
                noCutout == Count(g.rect_masks) = 0
                noBands == Count(g.freq_masks) + Count(g.time_masks) = 0
            IN  /\ noCutout => Call(i).after_cutout = Call(i).input_spec
                /\ noBands => Call(i).augmented_spec = Call(i).after_cutout
                /\ (noCutout /\ noBands) =>
                      /\ Call(i).augmented_spec = Call(i).input_spec
                      /\ rng[i] = Call(i).rng_before

C3_Witness ==
    /\ Applied(1)
    /\ Aug(1).given.rect_masks = Some(0)
    /\ Aug(1).given.freq_masks = Some(0)
    /\ Aug(1).given.time_masks = None
    /\ Aug(1).given.rng # None
    /\ Call(1).input_spec = Tensor(2, 2, 2, "parity")
    /\ Call(1).augmented_spec = Tensor(2, 2, 2, "parity")
    /\ rng[1].shared = Aug(1).given.rng

(***************************************************************************)
(* Two independent runs of extraction and of augmentation.                 *)
(***************************************************************************)
DetArgs == {[PreDefaults EXCEPT !.dither = d] : d \in {0, DefaultDither}}

DetGivens ==
    {[NoArgs EXCEPT !.rect_masks = Some(1), !.rect_freq = Some(2), !.rect_time = Some(2),
                    !.freq_masks = Some(1), !.freq_width = Some(2),
                    !.rng = Some(Seeded(t))] : t \in EntropySeeds}

DetTensors == {Tensor(1, MaxChannels, MaxFrames, "index")}

NextDet ==
    \E i \in Runs :
        \/ pre[i] = None /\ \E a \in DetArgs, t \in EntropySeeds : PreInit(i, a, t)
        \/ PreForward(i, OneSecond, <<16000>>)
        \/ Construct(i, DetGivens)
        \/ Apply(i, DetTensors)

SpecDet == Init /\ [][NextDet]_vars

Next ==
    \/ NextCtor
    \/ NextExtract
    \/ NextCutout
    \/ NextBand
    \/ NextIdentity
    \/ NextDet

Spec == Init /\ [][Next]_vars

====
